---- MODULE Spec2Model ----
(***************************************************************************)
(* vectorflow: the prompt-to-part pipeline.                                *)
(*                                                                         *)
(* The repository holds three copies of one script.  src/vectorflow.py and *)
(* src/a.py are the same program (a.py adds comments only); src/b.py is a  *)
(* drifted copy.  The variable `variant` says which program is executing:  *)
(* "vectorflow" (vectorflow.py and a.py) or "b" (b.py).                    *)
(*                                                                         *)
(* One execution of the program is one call of run_from_prompt.  The log   *)
(* file parts_generated.csv outlives an execution, so several executions   *)
(* (sequential or overlapping) are several processes over one log.         *)
(***************************************************************************)
EXTENDS Integers, Sequences, FiniteSets, TLC

(***************************************************************************)
(* Bounds of the model.                                                    *)
(***************************************************************************)
\* A prompt is at most MaxWords fragments of a vocabulary, joined by blanks.
MaxWords == 2
\* The number of executions over one log file (SpecLog, SpecConc).
MaxRuns == 2

(***************************************************************************)
(* Characters and strings.  A string is a sequence of characters; the      *)
(* character at position i of s is SubSeq(s, i, i).                        *)
(***************************************************************************)
Upper == "ABCDEFGHIJKLMNOPQRSTUVWXYZ"

LowerLetters == "abcdefghijklmnopqrstuvwxyz"

DigitChars == "0123456789"

CharsOf(s) == { SubSeq(s, i, i) : i \in 1..Len(s) }

\* \d of the re module (on the ASCII digits).
Digit == CharsOf(DigitChars)

\* \s of the re module (the blank is the one whitespace of the prompts here).
Space == {" "}

\* \w of the re module, on which \b is defined.
WordChar == CharsOf(LowerLetters) \cup CharsOf(Upper) \cup Digit \cup {"_"}

IndexIn(c, s) == CHOOSE k \in 1..Len(s) : SubSeq(s, k, k) = c

LowerChar(c) == IF c \in CharsOf(Upper)
                THEN LET k == IndexIn(c, Upper) IN SubSeq(LowerLetters, k, k)
                ELSE c

\* str.lower(), a character at a time (by halves, to keep the recursion shallow)
RECURSIVE Lower(_)
Lower(s) == IF s = "" THEN ""
            ELSE IF Len(s) = 1 THEN LowerChar(s)
            ELSE Lower(SubSeq(s, 1, Len(s) \div 2))
                 \o Lower(SubSeq(s, Len(s) \div 2 + 1, Len(s)))

\* `needle in s` on strings.
Contains(s, needle) ==
    \E i \in 1..(Len(s) - Len(needle) + 1) : SubSeq(s, i, i + Len(needle) - 1) = needle

\* int() of a string of decimal digits.
RECURSIVE ToInt(_)
ToInt(s) == IF s = "" THEN 0
            ELSE 10 * ToInt(SubSeq(s, 1, Len(s) - 1))
                 + (IndexIn(SubSeq(s, Len(s), Len(s)), DigitChars) - 1)

(***************************************************************************)
(* The regular expressions of the re module, as syntax trees, and a        *)
(* backtracking matcher.  Match(re, s, i, g) is the sequence of ways re    *)
(* matches s from position i, in the order the backtracking matcher tries  *)
(* them (greedy repetition first, the left alternative first): each is the *)
(* position after the match and the groups captured so far.  re.search     *)
(* takes the first way at the leftmost position that has one.              *)
(***************************************************************************)
Lit(str) == [t |-> "lit", s |-> str]

Cls(set) == [t |-> "cls", c |-> set]

Cat(rs) == [t |-> "cat", rs |-> rs]

Alt(a, b) == [t |-> "alt", a |-> a, b |-> b]

Star(r) == [t |-> "star", r |-> r]

Opt(r) == [t |-> "opt", r |-> r]

Plus(r) == Cat(<<r, Star(r)>>)

Grp(k, r) == [t |-> "grp", k |-> k, r |-> r]

WB == [t |-> "wb"]

NoGroups == [k \in {} |-> ""]

IsWordAt(s, i) == i >= 1 /\ i <= Len(s) /\ SubSeq(s, i, i) \in WordChar

RECURSIVE Match(_, _, _, _)
RECURSIVE MatchCat(_, _, _, _, _)
RECURSIVE MatchEach(_, _, _, _, _)
RECURSIVE MatchStar(_, _, _, _, _)
RECURSIVE CloseGroup(_, _, _, _, _)
Match(re, s, i, g) ==
    CASE re.t = "lit" ->
           IF i + Len(re.s) - 1 <= Len(s) /\ SubSeq(s, i, i + Len(re.s) - 1) = re.s
           THEN << [e |-> i + Len(re.s), g |-> g] >> ELSE << >>
      [] re.t = "cls" ->
           IF i <= Len(s) /\ SubSeq(s, i, i) \in re.c
           THEN << [e |-> i + 1, g |-> g] >> ELSE << >>
      [] re.t = "wb" ->
           IF IsWordAt(s, i - 1) # IsWordAt(s, i)
           THEN << [e |-> i, g |-> g] >> ELSE << >>
      [] re.t = "alt" -> Match(re.a, s, i, g) \o Match(re.b, s, i, g)
      [] re.t = "opt" -> Match(re.r, s, i, g) \o << [e |-> i, g |-> g] >>
      [] re.t = "cat" -> MatchCat(re.rs, 1, s, i, g)
      [] re.t = "star" ->
           MatchStar(re, s, i, Match(re.r, s, i, g), 1) \o << [e |-> i, g |-> g] >>
      [] re.t = "grp" -> CloseGroup(re.k, s, i, Match(re.r, s, i, g), 1)

\* The rest of a concatenation, after each way its k-th part matched.
MatchCat(rs, k, s, i, g) ==
    IF k > Len(rs) THEN << [e |-> i, g |-> g] >>
    ELSE MatchEach(rs, k, s, Match(rs[k], s, i, g), 1)

MatchEach(rs, k, s, ways, j) ==
    IF j > Len(ways) THEN << >>
    ELSE MatchCat(rs, k + 1, s, ways[j].e, ways[j].g) \o MatchEach(rs, k, s, ways, j + 1)

\* One more round of a repetition after each way its body matched (a round
\* that consumed nothing is not repeated).
MatchStar(re, s, i, ways, j) ==
    IF j > Len(ways) THEN << >>
    ELSE (IF ways[j].e > i THEN Match(re, s, ways[j].e, ways[j].g) ELSE << >>)
         \o MatchStar(re, s, i, ways, j + 1)

CloseGroup(k, s, i, ways, j) ==
    IF j > Len(ways) THEN << >>
    ELSE << [e |-> ways[j].e, g |-> (k :> SubSeq(s, i, ways[j].e - 1)) @@ ways[j].g] >>
         \o CloseGroup(k, s, i, ways, j + 1)

NoMatch == [found |-> FALSE]

\* The first way to match at the leftmost position of lo..hi that has one
\* (by halves, to keep the recursion shallow).
RECURSIVE SearchIn(_, _, _, _)
SearchIn(re, s, lo, hi) ==
    IF lo > hi THEN NoMatch
    ELSE IF lo = hi
    THEN LET ways == Match(re, s, lo, NoGroups)
         IN IF ways # << >>
            THEN [found |-> TRUE, start |-> lo, e |-> ways[1].e, g |-> ways[1].g]
            ELSE NoMatch
    ELSE LET mid == (lo + hi) \div 2
             left == SearchIn(re, s, lo, mid)
         IN IF left.found THEN left ELSE SearchIn(re, s, mid + 1, hi)

\* re.search(re, s), looking from position i on.
SearchFrom(re, s, i) == SearchIn(re, s, i, Len(s) + 1)

Search(re, s) == SearchFrom(re, s, 1)

\* re.findall(re, s) of a pattern with the one group 1: the group of each
\* match, left to right, the matches not overlapping.
RECURSIVE FindAllFrom(_, _, _)
FindAllFrom(re, s, i) ==
    LET m == SearchFrom(re, s, i)
    IN IF ~m.found THEN << >>
       ELSE << m.g[1] >> \o FindAllFrom(re, s, IF m.e > m.start THEN m.e ELSE m.e + 1)

FindAll(re, s) == FindAllFrom(re, s, 1)

Digits == Plus(Cls(Digit))

Spaces == Star(Cls(Space))

(***************************************************************************)
(* The params dict: a function from the keys present to their values.      *)
(***************************************************************************)
EmptyDict == [k \in {} |-> 0]

\* params[k] = v
Put(d, k, v) == (k :> v) @@ d

\* params.get(k, default)
Get(d, k, default) == IF k \in DOMAIN d THEN d[k] ELSE default

\* params.setdefault(k, default)
SetDefault(d, k, default) == IF k \in DOMAIN d THEN d ELSE Put(d, k, default)

Max(a, b) == IF a >= b THEN a ELSE b

\* int(x * 0.5) of an integer x >= 0.
HalfInt(x) == x \div 2

(***************************************************************************)
(* parse_prompt of vectorflow.py (and a.py): its patterns, in its order.   *)
(***************************************************************************)
ReArm == Cat(<<WB, Lit("arm"), WB>>)

ReLBracket == Alt(Cat(<<WB, Lit("l"), Opt(Lit("-")), Lit("bracket"), WB>>),
                  Cat(<<WB, Lit("l bracket"), WB>>))

RePlate == Cat(<<WB, Lit("plate"), WB>>)

\* r'\brectangl|bar\b'
ReRectangle == Alt(Cat(<<WB, Lit("rectangl")>>), Cat(<<Lit("bar"), WB>>))

ReTrapezoid == Alt(Cat(<<WB, Lit("trapezoid"), WB>>), Cat(<<WB, Lit("bracket"), WB>>))

ReMm == Cat(<<Grp(1, Digits), Spaces, Lit("mm")>>)

ReLong == Cat(<<Grp(1, Digits), Spaces,
                Alt(Lit("long"), Alt(Lit("length"), Cat(<<Lit("l"), WB>>)))>>)

WidthLead == Alt(Cat(<<Spaces, Opt(Cls({":", "="})), Spaces>>), Cat(<<Lit("of"), Spaces>>))

ReWidth == Cat(<<Lit("width"), WidthLead, Grp(1, Digits), Spaces, Lit("mm")>>)

ReThickness == Cat(<<Lit("thickness"), Spaces, Opt(Cls({":", "="})), Spaces,
                     Grp(1, Digits), Spaces, Lit("mm")>>)

ReHoles == Alt(Cat(<<Grp(1, Digits), Spaces, Opt(Cls({"-", " "})), Lit("bolt")>>),
               Cat(<<WB, Grp(2, Digits), Spaces, Lit("hole"), Opt(Lit("s")), WB>>))

ReBolt == Cat(<<Grp(1, Digits), Lit("-bolt")>>)

ReHoleDiameter == Cat(<<Grp(1, Digits), Spaces, Lit("mm"), Spaces,
                        Alt(Lit("hole"), Alt(Lit("diameter"), Lit("dia")))>>)

\* The pattern without the word that leads it: r'(\d+)\s*n'
ReForceBare == Cat(<<Grp(1, Digits), Spaces, Lit("n")>>)

\* r'supports\s*(?:up to\s*)?(\d+)\s*n'
ReForce == Cat(<<Lit("supports"), Spaces, Opt(Cat(<<Lit("up to"), Spaces>>)),
                 Grp(1, Digits), Spaces, Lit("n")>>)

\* The chain with an arm taken for the trapezoid it is drawn as.
PartTypeArmAsTrapezoid(p) ==
    IF Search(ReArm, p).found THEN "trapezoid"
    ELSE IF Search(ReLBracket, p).found THEN "l_bracket"
    ELSE IF Search(RePlate, p).found THEN "circle"
    ELSE IF Search(ReRectangle, p).found THEN "rectangle"
    ELSE "trapezoid"

\* The if/elif chain on the archetype patterns.
PartTypeOf(p) ==
    IF Search(ReArm, p).found THEN "arm"
    ELSE IF Search(ReLBracket, p).found THEN "l_bracket"
    ELSE IF Search(RePlate, p).found THEN "circle"
    ELSE IF Search(ReRectangle, p).found THEN "rectangle"
    ELSE IF Search(ReTrapezoid, p).found THEN "trapezoid"
    ELSE "trapezoid"

LengthOf(p) ==
    LET m == Search(ReMm, p)
        m2 == Search(ReLong, p)
    IN IF m.found THEN ToInt(m.g[1])
       ELSE IF m2.found THEN ToInt(m2.g[1]) ELSE 120

WidthOf(p) ==
    LET m == Search(ReWidth, p)
        mm_all == FindAll(ReMm, p)
    IN IF m.found THEN ToInt(m.g[1])
       ELSE IF Len(mm_all) >= 2 THEN ToInt(mm_all[2]) ELSE 40

ThicknessOf(p) ==
    LET m == Search(ReThickness, p) IN IF m.found THEN ToInt(m.g[1]) ELSE 5

\* nums[0]: the first group of the match that is not None.
FirstGroup(m) == IF 1 \in DOMAIN m.g THEN m.g[1] ELSE m.g[2]

HoleCountOf(p) ==
    LET m == Search(ReHoles, p)
        m2 == Search(ReBolt, p)
    IN IF m.found THEN (IF DOMAIN m.g # {} THEN ToInt(FirstGroup(m)) ELSE 0)
       ELSE IF m2.found THEN ToInt(m2.g[1]) ELSE 3

HoleDiameterOf(p) ==
    LET m == Search(ReHoleDiameter, p) IN IF m.found THEN ToInt(m.g[1]) ELSE 6

MaterialOf(p) ==
    IF Contains(p, "steel") THEN "steel"
    ELSE IF Contains(p, "aluminium") \/ Contains(p, "aluminum") THEN "aluminum"
    ELSE "aluminum"

TargetForceOf(p) ==
    LET m == Search(ReForce, p) IN IF m.found THEN ToInt(m.g[1]) ELSE 2000

\* The half alone, without the floor of 10.
WidthRightNoMin(width_left) == HalfInt(width_left)

\* The narrower tip of an arm: max(10, int(width_left * 0.5)).
WidthRightOf(width_left) == Max(10, HalfInt(width_left))

\* The block without its branch for a plate.
ShapeFieldsNoPlate(d) ==
    IF d["part_type"] = "arm" \/ d["part_type"] = "trapezoid"
    THEN LET d1 == Put(d, "length", Get(d, "length", 150))
             d2 == Put(d1, "width_left", Get(d1, "width", 50))
         IN Put(d2, "width_right", Max(10, HalfInt(d2["width_left"])))
    ELSE IF d["part_type"] = "rectangle"
    THEN Put(Put(d, "rect_width", Get(d, "width", 40)),
             "rect_height", Get(d, "thickness", 5))
    ELSE d

\* The shape-specific block that ends parse_prompt.
ShapeFields(d) ==
    IF d["part_type"] = "arm" \/ d["part_type"] = "trapezoid"
    THEN LET d1 == Put(d, "length", Get(d, "length", 150))
             d2 == Put(d1, "width_left", Get(d1, "width", 50))
         IN Put(d2, "width_right", WidthRightOf(d2["width_left"]))
    ELSE IF d["part_type"] = "rectangle"
    THEN Put(Put(d, "rect_width", Get(d, "width", 40)),
             "rect_height", Get(d, "thickness", 5))
    ELSE IF d["part_type"] = "circle"
    THEN Put(d, "circle_diameter", Get(d, "length", 80))
    ELSE d

\* parse_prompt of vectorflow.py.  (Its closing loop turns values that are
\* digit strings into integers; no value is one: the numbers are integers
\* already, part_type and material are words.)
ParsePromptV(prompt) ==
    LET p == Lower(prompt)
    IN ShapeFields([part_type |-> PartTypeOf(p),
                    length |-> LengthOf(p),
                    width |-> WidthOf(p),
                    thickness |-> ThicknessOf(p),
                    hole_count |-> HoleCountOf(p),
                    hole_diameter |-> HoleDiameterOf(p),
                    material |-> MaterialOf(p),
                    target_force_n |-> TargetForceOf(p)])

(***************************************************************************)
(* parse_prompt of b.py: defaults first, then each pattern that matches    *)
(* overwrites its field; the archetype is found by substring.              *)
(***************************************************************************)
\* r'(\d+)\s*m*m'
ReDimsB == Cat(<<Grp(1, Digits), Spaces, Star(Lit("m")), Lit("m")>>)

ReWidthB == Cat(<<Lit("width"), WidthLead, Grp(1, Digits)>>)

ReThicknessB == Cat(<<Lit("thickness"), Spaces, Opt(Cls({":", "="})), Spaces,
                      Grp(1, Digits)>>)

ReDiameterB == Cat(<<Lit("diameter"), Spaces, Grp(1, Digits)>>)

DefaultsB == [part_type |-> "trapezoid", length |-> 120, width |-> 40,
              thickness |-> 5, hole_count |-> 3, hole_diameter |-> 6,
              material |-> "aluminum", target_force_n |-> 2000]

PartTypeOfB(p) ==
    IF Contains(p, "arm") THEN "arm"
    ELSE IF Contains(p, "l-bracket") \/ Contains(p, "l bracket") THEN "l_bracket"
    ELSE IF Contains(p, "plate") THEN "circle"
    ELSE IF Contains(p, "rectangle") \/ Contains(p, "bar") THEN "rectangle"
    ELSE IF Contains(p, "trapezoid") \/ Contains(p, "bracket") THEN "trapezoid"
    ELSE DefaultsB["part_type"]

\* d[k] = int(m.group(1)) when the pattern matches, d otherwise.
PutIfFound(d, k, re, p) ==
    LET m == Search(re, p) IN IF m.found THEN Put(d, k, ToInt(m.g[1])) ELSE d

DimsB(d, p) ==
    LET dims == FindAll(ReDimsB, p)
        d1 == IF Len(dims) >= 1 THEN Put(d, "length", ToInt(dims[1])) ELSE d
    IN IF Len(dims) >= 2 THEN Put(d1, "width", ToInt(dims[2])) ELSE d1

HolesB(d, p) ==
    LET m == Search(ReHoles, p)
    IN IF m.found
       THEN Put(d, "hole_count", IF DOMAIN m.g # {} THEN ToInt(FirstGroup(m)) ELSE 0)
       ELSE d

MaterialB(d, p) ==
    IF Contains(p, "steel") THEN Put(d, "material", "steel")
    ELSE IF Contains(p, "aluminium") \/ Contains(p, "aluminum")
    THEN Put(d, "material", "aluminum")
    ELSE d

\* "Normalize dimensions for specific part types".
ShapeFieldsB(d) ==
    IF d["part_type"] \in {"arm", "trapezoid"}
    THEN Put(Put(d, "width_left", d["width"]), "width_right", WidthRightOf(d["width"]))
    ELSE IF d["part_type"] = "rectangle" THEN Put(d, "rect_width", d["width"])
    ELSE IF d["part_type"] = "circle" THEN Put(d, "circle_diameter", d["length"])
    ELSE d

ParsePromptB(prompt) ==
    LET p == Lower(prompt)
        d1 == DimsB(Put(DefaultsB, "part_type", PartTypeOfB(p)), p)
        d2 == PutIfFound(d1, "width", ReWidthB, p)
        d3 == PutIfFound(d2, "thickness", ReThicknessB, p)
        d4 == PutIfFound(d3, "circle_diameter", ReDiameterB, p)
        d5 == PutIfFound(HolesB(d4, p), "hole_diameter", ReHoleDiameter, p)
        d6 == PutIfFound(MaterialB(d5, p), "target_force_n", ReForce, p)
    IN ShapeFieldsB(d6)

\* parse_prompt of the program that is executing.
ParsePrompt(v, prompt) == IF v = "b" THEN ParsePromptB(prompt) ELSE ParsePromptV(prompt)

(***************************************************************************)
(* Numbers.  The program computes in floating point; the model keeps the   *)
(* exact value: a fraction n/d in lowest terms, d > 0, times pi when `pi`  *)
(* is set (the area of a disk).                                            *)
(***************************************************************************)
Abs(x) == IF x < 0 THEN -x ELSE x

RECURSIVE Gcd(_, _)
Gcd(a, b) == IF b = 0 THEN a ELSE Gcd(b, a % b)

Frac(n, d) ==
    LET g == Gcd(Abs(n), Abs(d))
        sgn == IF d < 0 THEN -1 ELSE 1
    IN [n |-> sgn * (n \div g), d |-> sgn * (d \div g), pi |-> FALSE]

Whole(k) == Frac(k, 1)

TimesPi(x) == [x EXCEPT !.pi = TRUE]

\* x * (n / d)
Scale(x, n, d) == [Frac(x.n * n, x.d * d) EXCEPT !.pi = x.pi]

\* x - y, of two fractions
Minus(x, y) == Frac(x.n * y.d - y.n * x.d, x.d * y.d)

\* x >= t for an integer t >= 0.  pi is irrational, so x = q * pi is never an
\* integer but 0; 3 < pi < 355/113, and no integer t below 10^6 lies between
\* q * pi and q * 355/113 for the q the model computes (multiples of 1/4).
Geq(x, t) ==
    IF ~x.pi THEN x.n >= t * x.d
    ELSE IF x.n * 3 >= t * x.d THEN TRUE
    ELSE x.n * 355 >= t * x.d * 113

(***************************************************************************)
(* Geometry.  A hole is its centre and radius: "xy" holes by coordinates,  *)
(* "polar" holes (on the ring of a plate) by the ring radius and the angle *)
(* 2 * pi * turn, from which the program takes x = ring * cos(angle) and   *)
(* y = ring * sin(angle).                                                  *)
(***************************************************************************)
XYHole(x, y, r) == [kind |-> "xy", x |-> x, y |-> y, r |-> r]

PolarHole(ring, turn, r) == [kind |-> "polar", ring |-> ring, turn |-> turn, r |-> r]

\* for i in range(n): the k-th turn of the loop has i = k - 1
Range(n) == 1..n

\* hr = hole_diameter / 2.0
HoleRadius(d) == Frac(Get(d, "hole_diameter", 6), 2)

\* x = (i+1) * L / (hc+1)
HoleX(i, L, hc) == Frac((i + 1) * L, hc + 1)

\* The holes of an arm, a bar and a plate, as vectorflow.py places them, in
\* the preview and in the solid alike.
ArmHoles(d, hc) ==
    [k \in Range(hc) |-> XYHole(HoleX(k - 1, d["length"], hc),
                                Frac(d["width_left"] + d["width_right"], 4),
                                HoleRadius(d))]

BarHoles(d, hc) ==
    [k \in Range(hc) |-> XYHole(HoleX(k - 1, d["length"], hc),
                                Frac(d["rect_width"], 2), HoleRadius(d))]

PlateHoles(d, hc) ==
    [k \in Range(hc) |-> PolarHole(Frac(d["circle_diameter"], 4), Frac(k - 1, hc),
                                   HoleRadius(d))]

\* The holes generate_2d_preview of vectorflow.py draws.
PreviewHolesV(d) ==
    LET hc == Get(d, "hole_count", 0)
    IN IF d["part_type"] \in {"arm", "trapezoid"} THEN ArmHoles(d, hc)
       ELSE IF d["part_type"] = "rectangle" THEN BarHoles(d, hc)
       ELSE IF d["part_type"] = "circle" THEN (IF hc > 0 THEN PlateHoles(d, hc) ELSE << >>)
       ELSE << >>

\* The holes generate_2d_preview of b.py draws: an arm's along its taper, a
\* bar's about the origin.
PreviewHolesB(d) ==
    LET hc == Get(d, "hole_count", 0)
        wL == Whole(Get(d, "width_left", 0))
        wR == Whole(Get(d, "width_right", 0))
    IN IF hc <= 0 THEN << >>
       ELSE IF d["part_type"] \in {"arm", "trapezoid"}
       THEN [k \in Range(hc) |->
                XYHole(HoleX(k - 1, d["length"], hc),
                       Minus(Scale(wL, 1, 2), Scale(Minus(wL, wR), k, 2 * (hc + 1))),
                       HoleRadius(d))]
       ELSE IF d["part_type"] = "rectangle"
       THEN [k \in Range(hc) |->
                XYHole(Minus(HoleX(k - 1, d["length"], hc), Frac(d["length"], 2)),
                       Whole(0), HoleRadius(d))]
       ELSE IF d["part_type"] = "circle" THEN PlateHoles(d, hc)
       ELSE << >>

PreviewHoles(v, d) == IF v = "b" THEN PreviewHolesB(d) ELSE PreviewHolesV(d)

\* The part types build_scad has a branch for.
Recognized(v) ==
    IF v = "b" THEN {"arm", "trapezoid", "rectangle", "circle", "l_bracket"}
    ELSE {"arm", "trapezoid", "rectangle", "circle"}

\* A build_scad without its else branch.
BuildScadSilent(v, d) == FALSE

\* build_scad raises ValueError("Unknown part type for SCAD").
BuildScadRaises(v, d) == d["part_type"] \notin Recognized(v)

\* The holes build_scad of vectorflow.py cuts.
ScadHolesV(d) ==
    LET hc == Get(d, "hole_count", 0)
    IN IF hc <= 0 THEN << >>
       ELSE IF d["part_type"] \in {"arm", "trapezoid"} THEN ArmHoles(d, hc)
       ELSE IF d["part_type"] = "rectangle" THEN BarHoles(d, hc)
       ELSE IF d["part_type"] = "circle" THEN PlateHoles(d, hc)
       ELSE << >>

\* b.py: hole_objs stays empty ("the rest of your hole generation logic"
\* is a comment), so no hole is cut.
ScadHolesB(d) == << >>

ScadHoles(v, d) == IF v = "b" THEN ScadHolesB(d) ELSE ScadHolesV(d)

\* The base solid: the outline that is extruded, or the two boxes of an
\* L-bracket (b.py).
SolidBase(v, d) ==
    LET t == d["part_type"]
    IN IF t \in {"arm", "trapezoid"}
       THEN [shape |-> "polygon",
             points |-> << <<0, 0>>, <<d["length"], 0>>,
                           <<d["length"], d["width_right"]>>, <<0, d["width_left"]>> >>]
       ELSE IF t = "rectangle"
       THEN [shape |-> "polygon",
             points |-> << <<0, 0>>, <<d["length"], 0>>,
                           <<d["length"], d["rect_width"]>>, <<0, d["rect_width"]>> >>]
       ELSE IF t = "circle"
       THEN [shape |-> "circle", r |-> Frac(d["circle_diameter"], 2), segments |-> 128]
       ELSE [shape |-> "l_bracket", width |-> Get(d, "width", 40),
             length |-> Get(d, "length", 120)]

\* build_scad, when it returns: the base, extruded, less the holes.
BuildScad(v, d) ==
    [base |-> SolidBase(v, d), height |-> Get(d, "thickness", 5),
     holes |-> ScadHoles(v, d)]

(***************************************************************************)
(* The structural estimate of run_from_prompt.                             *)
(***************************************************************************)
TrapezoidArea(d) == Frac((d["width_left"] + d["width_right"]) * d["length"], 2)

DiskArea(d) == TimesPi(Frac(d["circle_diameter"] * d["circle_diameter"], 4))

\* vectorflow.py: the last branch takes every other part type for a plate.
NetAreaV(d) ==
    IF d["part_type"] \in {"arm", "trapezoid"} THEN TrapezoidArea(d)
    ELSE IF d["part_type"] = "rectangle" THEN Whole(d["length"] * d["rect_width"])
    ELSE DiskArea(d)

\* b.py: 0 for a part type that has no branch.
NetAreaB(d) ==
    IF d["part_type"] \in {"arm", "trapezoid"} THEN TrapezoidArea(d)
    ELSE IF d["part_type"] = "rectangle" THEN Whole(d["length"] * d["rect_width"])
    ELSE IF d["part_type"] = "circle" THEN DiskArea(d)
    ELSE Whole(0)

\* g/cm^3, in hundredths: 2.7 and 7.85
DensityHundredths(material) == IF material = "aluminum" THEN 270 ELSE 785

\* MPa
YieldStrength(material) == IF material = "aluminum" THEN 150 ELSE 250

\* params.get('width_right', params.get('rect_width', params.get('circle_diameter')))
\* of b.py; None when the params hold none of the three.
EffectiveWidthKeys == <<"width_right", "rect_width", "circle_diameter">>

HasEffectiveWidth(d) == \E i \in 1..3 : EffectiveWidthKeys[i] \in DOMAIN d

EffectiveWidth(d) ==
    d[EffectiveWidthKeys[CHOOSE i \in 1..3 :
        /\ EffectiveWidthKeys[i] \in DOMAIN d
        /\ \A j \in 1..(i - 1) : EffectiveWidthKeys[j] \notin DOMAIN d]]

\* The estimate raises: vectorflow.py reads params['circle_diameter'] of a
\* part that has none (KeyError); b.py multiplies None by the thickness
\* (TypeError).
EstimateRaises(v, d) ==
    IF v = "b" THEN ~HasEffectiveWidth(d)
    ELSE /\ d["part_type"] \notin {"arm", "trapezoid", "rectangle"}
         /\ "circle_diameter" \notin DOMAIN d

MaxForce(v, d) ==
    LET material == Get(d, "material", "aluminum")
    IN IF v = "b"
       THEN Scale(Whole(EffectiveWidth(d) * Get(d, "thickness", 5)),
                  YieldStrength(material), 1000)
       ELSE Scale(NetAreaV(d), YieldStrength(material), 1)

\* The comparison with > in place of >=.
StatusStrict(max_force, target) ==
    IF Geq(max_force, target) /\ max_force # Whole(target) THEN "PASS" ELSE "FAIL"

\* status = "PASS" if max_force >= target_force_n else "FAIL"
Status(max_force, target) == IF Geq(max_force, target) THEN "PASS" ELSE "FAIL"

\* The names of a run's files: {save_prefix}_{timestamp} and the extension.
\* The run's number stands for its timestamp.
FileName(run, ext) == "part_" \o SubSeq(DigitChars, run + 1, run + 1) \o ext

\* The row run_from_prompt logs.
Row(v, run, prompt, d, stl_created) ==
    LET net_area == IF v = "b" THEN NetAreaB(d) ELSE NetAreaV(d)
        thickness == Get(d, "thickness", 5)
        volume == Scale(net_area, thickness, 1000)
        material == Get(d, "material", "aluminum")
        max_force == MaxForce(v, d)
    IN [timestamp |-> run,
        prompt |-> prompt,
        part_type |-> d["part_type"],
        png |-> FileName(run, ".png"),
        scad |-> FileName(run, ".scad"),
        stl |-> IF stl_created THEN FileName(run, ".stl") ELSE "",
        net_area_mm2 |-> net_area,
        thickness_mm |-> thickness,
        volume_cm3 |-> volume,
        material |-> d["material"],
        weight_g |-> Scale(volume, DensityHundredths(material), 100),
        max_force_n |-> max_force,
        target_force_n |-> d["target_force_n"],
        status |-> Status(max_force, Get(d, "target_force_n", 2000))]

(***************************************************************************)
(* The log file and pandas.  The file is NoFile or File(rows), the rows it *)
(* holds, each cell as the text written.  A DataFrame holds cells: in the columns      *)
(* `prompt` and `stl`, NaN, a string, or the number read_csv made of a     *)
(* column of digit strings; the other columns hold a word, a path or a     *)
(* number, which to_csv and read_csv give back as it was (up to the way a  *)
(* number is printed).                                                     *)
(***************************************************************************)
NoFile == [exists |-> FALSE, rows |-> << >>]

File(rows) == [exists |-> TRUE, rows |-> rows]

\* The texts read_csv takes for a missing value (its default na_values).
NAStrings == {"", "#N/A", "#N/A N/A", "#NA", "-1.#IND", "-1.#QNAN", "-NaN", "-nan",
              "1.#IND", "1.#QNAN", "<NA>", "N/A", "NA", "NULL", "NaN", "None",
              "n/a", "nan", "null"}

NaN == [k |-> "nan"]

StrCell(s) == [k |-> "str", s |-> s]

IsDigits(s) == s # "" /\ \A i \in 1..Len(s) : SubSeq(s, i, i) \in Digit

\* str(int(s)): the digits without leading zeros.
RECURSIVE Canon(_)
Canon(s) == IF Len(s) > 1 /\ SubSeq(s, 1, 1) = "0" THEN Canon(SubSeq(s, 2, Len(s))) ELSE s

\* read_csv on one column of texts: a missing value is NaN; a column whose
\* other texts are all digit strings is a column of numbers (of floats when
\* a value is missing); any other text is a string.
ReadColumn(texts) ==
    LET present == { i \in 1..Len(texts) : texts[i] \notin NAStrings }
        numeric == present # {} /\ \A i \in present : IsDigits(texts[i])
        kind == IF present = DOMAIN texts THEN "int" ELSE "float"
    IN [i \in 1..Len(texts) |->
          IF i \notin present THEN NaN
          ELSE IF numeric THEN [k |-> kind, s |-> Canon(texts[i])]
          ELSE StrCell(texts[i])]

\* to_csv of one cell: NaN is written as nothing.
WriteCell(c) ==
    IF c.k = "nan" THEN ""
    ELSE IF c.k = "float" THEN c.s \o ".0"
    ELSE c.s

\* pd.read_csv(CSV_FILE), of the rows of the file
ReadCsv(rows) ==
    LET prompts == ReadColumn([i \in 1..Len(rows) |-> rows[i].prompt])
        stls == ReadColumn([i \in 1..Len(rows) |-> rows[i].stl])
    IN [i \in 1..Len(rows) |-> [rows[i] EXCEPT !.prompt = prompts[i], !.stl = stls[i]]]

\* The rows df.to_csv(CSV_FILE, index=False) writes.
ToCsv(df) ==
    [i \in 1..Len(df) |->
        [df[i] EXCEPT !.prompt = WriteCell(df[i].prompt), !.stl = WriteCell(df[i].stl)]]

\* pd.DataFrame([row_dict])
DataFrame(row) == << [row EXCEPT !.prompt = StrCell(row.prompt), !.stl = StrCell(row.stl)] >>

\* The first half of append_csv: the frame to write.
\*   if os.path.exists(CSV_FILE): df = concat(read_csv(CSV_FILE), df_new)
\*   else: df = df_new
AppendFrame(file, row) ==
    IF file.exists THEN ReadCsv(file.rows) \o DataFrame(row) ELSE DataFrame(row)

(***************************************************************************)
(* run_from_prompt.                                                        *)
(***************************************************************************)
\* The block as it would be with assignments in place of setdefault.
SetDefaultOverwrite(d) ==
    IF d["part_type"] \in {"arm", "trapezoid"}
    THEN Put(Put(Put(d, "length", 150), "width_left", 50), "width_right", HalfInt(50))
    ELSE IF d["part_type"] = "rectangle"
    THEN Put(Put(d, "length", 120), "rect_width", 40)
    ELSE IF d["part_type"] = "circle" THEN Put(d, "circle_diameter", 80)
    ELSE d

\* The setdefault block of vectorflow.py ("fill some safe defaults").
SetDefaults(d) ==
    IF d["part_type"] \in {"arm", "trapezoid"}
    THEN LET d1 == SetDefault(d, "length", 150)
             d2 == SetDefault(d1, "width_left", 50)
         IN SetDefault(d2, "width_right", HalfInt(Get(d2, "width_left", 50)))
    ELSE IF d["part_type"] = "rectangle"
    THEN SetDefault(SetDefault(d, "length", 120), "rect_width", 40)
    ELSE IF d["part_type"] = "circle" THEN SetDefault(d, "circle_diameter", 80)
    ELSE d

\* b.py has no such block.
ResolveDefaults(v, d) == IF v = "b" THEN d ELSE SetDefaults(d)

\* A write that would add the row to the file as it is at the time of writing.
WrittenLogAppending(file, frame, row) ==
    File(file.rows \o ToCsv(DataFrame(row)))

\* What the second half of append_csv leaves in the file:
\* df.to_csv(CSV_FILE, index=False) writes the whole frame over the file.
WrittenLog(file, frame, row) == File(ToCsv(frame))

VARIABLES
    variant,      \* the program that is executing: "vectorflow" or "b"
    prompt,       \* prompt[p]: the argument of run p
    pc,           \* pc[p]: where run p is in run_from_prompt
    params,       \* params[p]: the params dict of run p
    preview,      \* preview[p]: the holes drawn in the preview image
    part,         \* part[p]: the solid build_scad returned
    stl_created,  \* stl_created[p]
    row,          \* row[p]: the row to log
    df,           \* df[p]: the frame append_csv is about to write
    files,        \* the artifact files on disk
    csv,          \* parts_generated.csv
    logBefore,    \* history: the log when run p began
    appended      \* history: the rows of the completed append_csv calls, in order

vars == <<variant, prompt, pc, params, preview, part, stl_created, row, df, files,
          csv, logBefore, appended>>

Runs == DOMAIN pc

\* The first example prompt of the script.
Example1 ==
    "Design an aluminum suspension arm 150mm long, 50mm wide, supports 2000N, 3-bolt mount"

\* The log an earlier execution (number 0) of the example left.
EarlierLog(v) ==
    File(ToCsv(DataFrame(Row(v, 0, Example1, ResolveDefaults(v, ParsePrompt(v, Example1)), TRUE))))

\* The prompts of at most n fragments of a vocabulary, joined by blanks.
RECURSIVE Prompts(_, _)
Prompts(words, n) ==
    IF n = 0 THEN {""}
    ELSE LET shorter == Prompts(words, n - 1)
         IN shorter \cup { IF q = "" THEN w ELSE q \o " " \o w : q \in shorter, w \in words }

InitOver(pool, runs, withEarlierLog) ==
    /\ variant \in {"vectorflow", "b"}
    /\ csv \in {NoFile} \cup (IF withEarlierLog THEN {EarlierLog(variant)} ELSE {})
    /\ prompt \in [runs -> pool]
    /\ pc = [p \in runs |-> "start"]
    /\ params = [p \in runs |-> EmptyDict]
    /\ preview = [p \in runs |-> << >>]
    /\ part = [p \in runs |-> EmptyDict]
    /\ stl_created = [p \in runs |-> FALSE]
    /\ row = [p \in runs |-> EmptyDict]
    /\ df = [p \in runs |-> << >>]
    /\ files = {}
    /\ logBefore = [p \in runs |-> NoFile]
    /\ appended = << >>

\* params = parse_prompt(prompt)
Parse(p) ==
    /\ pc[p] = "start"
    /\ params' = [params EXCEPT ![p] = ParsePrompt(variant, prompt[p])]
    /\ logBefore' = [logBefore EXCEPT ![p] = csv]
    /\ pc' = [pc EXCEPT ![p] = "parsed"]
    /\ UNCHANGED <<variant, prompt, preview, part, stl_created, row, df, files, csv,
                   appended>>

\* the setdefault block
Resolve(p) ==
    /\ pc[p] = "parsed"
    /\ params' = [params EXCEPT ![p] = ResolveDefaults(variant, params[p])]
    /\ pc' = [pc EXCEPT ![p] = "resolved"]
    /\ UNCHANGED <<variant, prompt, preview, part, stl_created, row, df, files, csv,
                   logBefore, appended>>

\* generate_2d_preview(params, png_name): draws, then saves the image.
Preview(p) ==
    /\ pc[p] = "resolved"
    /\ preview' = [preview EXCEPT ![p] = PreviewHoles(variant, params[p])]
    /\ files' = files \cup {FileName(p, ".png")}
    /\ pc' = [pc EXCEPT ![p] = "previewed"]
    /\ UNCHANGED <<variant, prompt, params, part, stl_created, row, df, csv,
                   logBefore, appended>>

\* part = build_scad(params), returning
Build(p) ==
    /\ pc[p] = "previewed"
    /\ ~BuildScadRaises(variant, params[p])
    /\ part' = [part EXCEPT ![p] = BuildScad(variant, params[p])]
    /\ pc' = [pc EXCEPT ![p] = "built"]
    /\ UNCHANGED <<variant, prompt, params, preview, stl_created, row, df, files, csv,
                   logBefore, appended>>

\* part = build_scad(params), raising: the ValueError ends the run.
BuildFatal(p) ==
    /\ pc[p] = "previewed"
    /\ BuildScadRaises(variant, params[p])
    /\ pc' = [pc EXCEPT ![p] = "fatal"]
    /\ UNCHANGED <<variant, prompt, params, preview, part, stl_created, row, df, files,
                   csv, logBefore, appended>>

\* scad_render_to_file(part, scad_name, ...)
Render(p) ==
    /\ pc[p] = "built"
    /\ files' = files \cup {FileName(p, ".scad")}
    /\ pc' = [pc EXCEPT ![p] = "rendered"]
    /\ UNCHANGED <<variant, prompt, params, preview, part, stl_created, row, df, csv,
                   logBefore, appended>>

\* subprocess.run(["openscad", ...], check=True) returns.
Export(p) ==
    /\ pc[p] = "rendered"
    /\ files' = files \cup {FileName(p, ".stl")}
    /\ stl_created' = [stl_created EXCEPT ![p] = TRUE]
    /\ pc' = [pc EXCEPT ![p] = "exported"]
    /\ UNCHANGED <<variant, prompt, params, preview, part, row, df, csv, logBefore,
                   appended>>

\* subprocess.run raises (no openscad, or it fails): except Exception.
ExportFails(p) ==
    /\ pc[p] = "rendered"
    /\ stl_created' = [stl_created EXCEPT ![p] = FALSE]
    /\ pc' = [pc EXCEPT ![p] = "exported"]
    /\ UNCHANGED <<variant, prompt, params, preview, part, row, df, files, csv,
                   logBefore, appended>>

\* The estimate and the row.
Estimate(p) ==
    /\ pc[p] = "exported"
    /\ ~EstimateRaises(variant, params[p])
    /\ row' = [row EXCEPT ![p] = Row(variant, p, prompt[p], params[p], stl_created[p])]
    /\ pc' = [pc EXCEPT ![p] = "estimated"]
    /\ UNCHANGED <<variant, prompt, params, preview, part, stl_created, df, files, csv,
                   logBefore, appended>>

\* The estimate raises: the run ends before append_csv.
EstimateCrash(p) ==
    /\ pc[p] = "exported"
    /\ EstimateRaises(variant, params[p])
    /\ pc' = [pc EXCEPT ![p] = "crashed"]
    /\ UNCHANGED <<variant, prompt, params, preview, part, stl_created, row, df, files,
                   csv, logBefore, appended>>

\* append_csv(row), to the point where the frame to write is made.
AppendRead(p) ==
    /\ pc[p] = "estimated"
    /\ df' = [df EXCEPT ![p] = AppendFrame(csv, row[p])]
    /\ pc' = [pc EXCEPT ![p] = "read"]
    /\ UNCHANGED <<variant, prompt, params, preview, part, stl_created, row, files, csv,
                   logBefore, appended>>

\* append_csv(row): df.to_csv(CSV_FILE, index=False)
AppendWrite(p) ==
    /\ pc[p] = "read"
    /\ csv' = WrittenLog(csv, df[p], row[p])
    /\ appended' = appended \o ToCsv(DataFrame(row[p]))
    /\ pc' = [pc EXCEPT ![p] = "done"]
    /\ UNCHANGED <<variant, prompt, params, preview, part, stl_created, row, df, files,
                   logBefore>>

AtRest(p) == pc[p] \in {"start", "done", "fatal", "crashed"}

\* Run p has the machine to itself: every other run is yet to start or over.
Alone(p) == \A q \in Runs \ {p} : AtRest(q)

\* One execution.
Next ==
    \E p \in {1} :
        \/ Parse(p) \/ Resolve(p) \/ Preview(p) \/ Build(p) \/ BuildFatal(p)
        \/ Render(p) \/ Export(p) \/ ExportFails(p) \/ Estimate(p)
        \/ EstimateCrash(p) \/ AppendRead(p) \/ AppendWrite(p)

\* Executions one after the other.
NextSequential ==
    \E p \in 1..MaxRuns :
        \/ Alone(p) /\ Parse(p)
        \/ Alone(p) /\ Resolve(p)
        \/ Alone(p) /\ Preview(p)
        \/ Alone(p) /\ Build(p)
        \/ Alone(p) /\ BuildFatal(p)
        \/ Alone(p) /\ Render(p)
        \/ Alone(p) /\ Export(p)
        \/ Alone(p) /\ ExportFails(p)
        \/ Alone(p) /\ Estimate(p)
        \/ Alone(p) /\ EstimateCrash(p)
        \/ Alone(p) /\ AppendRead(p)
        \/ Alone(p) /\ AppendWrite(p)

\* Executions that overlap.
NextConcurrent ==
    \E p \in 1..MaxRuns :
        \/ Parse(p) \/ Resolve(p) \/ Preview(p) \/ Build(p) \/ BuildFatal(p)
        \/ Render(p) \/ Export(p) \/ ExportFails(p) \/ Estimate(p)
        \/ EstimateCrash(p) \/ AppendRead(p) \/ AppendWrite(p)

(***************************************************************************)
(* The inputs.                                                             *)
(***************************************************************************)
Words ==
    {"arm", "l-bracket", "Plate", "bar", "rectangl", "81mm", "1mm", "width 12mm",
     "supports 4500N", "0 holes", "steel", "diameter 80"}

LogPrompts == {"NA", "arm 150mm", "l-bracket 60mm"}

\* One execution, on a prompt of the vocabulary, with or without a log.
Spec == InitOver(Prompts(Words, MaxWords), {1}, TRUE) /\ [][Next]_vars

\* MaxRuns executions, one after the other, from no log.
SpecLog == InitOver(LogPrompts, 1..MaxRuns, FALSE) /\ [][NextSequential]_vars

\* MaxRuns executions that overlap, from no log.
SpecConc == InitOver(LogPrompts, 1..MaxRuns, FALSE) /\ [][NextConcurrent]_vars

\* The example prompts of the script, the second after the first.
Example2 == "Make a steel plate 80mm diameter with 4 holes 6mm, thickness 6mm"

\* Archetype keywords, alone and inside longer words.
ArchetypeWords == {"arm", "alarm", "l-bracket", "Plate", "bar", "crowbar", "bracket"}

\* Fragments that state numbers, with and without the words that lead them.
NumberWords ==
    {"0mm", "thickness 0mm", "6mm hole", "supports 0N", "500N", "supports 300N",
     "supports up to 70 n", "up to 9N", "rectangle", "plate"}

\* The prompts parse_prompt alone is applied to.
ParsePrompts ==
    Prompts(ArchetypeWords, MaxWords + 1) \cup Prompts(NumberWords, MaxWords)
        \cup {Example1, Example2}

\* parse_prompt alone.
NextParse == \E p \in {1} : Parse(p)

SpecParse == InitOver(ParsePrompts, {1}, FALSE) /\ [][NextParse]_vars

(***************************************************************************)
(* The claims.                                                             *)
(***************************************************************************)
\* build_scad has returned in run p.
Built(p) == pc[p] \in {"built", "rendered", "exported", "estimated", "crashed", "read", "done"}

\* The row of run p is made.
Estimated(p) == pc[p] \in {"estimated", "read", "done"}

\* C1: for an arm, a trapezoid, a rectangle or a circle, the holes drawn in
\* the preview are the holes cut from the solid, the same list of (x, y, radius).
C1_PreviewHolesAreScadHoles ==
    \A p \in Runs :
        Built(p) /\ params[p]["part_type"] \in {"arm", "trapezoid", "rectangle", "circle"}
            => preview[p] = part[p].holes

\* C2: whenever a run has made its report, the status is PASS if and only if
\* max_force_n >= target_force_n, and FAIL otherwise.
C2_StatusIffCapacity ==
    \A p \in Runs :
        Estimated(p) =>
            /\ row[p].status \in {"PASS", "FAIL"}
            /\ row[p].status = "PASS" <=> Geq(row[p].max_force_n, row[p].target_force_n)

\* A report whose capacity equals the target, and passes.
C2_EqualityPasses ==
    \E p \in Runs :
        /\ Estimated(p)
        /\ row[p].max_force_n = Whole(row[p].target_force_n)
        /\ row[p].status = "PASS"

\* C3: the params of an arm or a trapezoid have width_left equal to the width
\* extracted and width_right = max(10, floor(width_left / 2)).
C3_WidthRightIsHalfAtLeastTen ==
    \A p \in Runs :
        pc[p] # "start" /\ params[p]["part_type"] \in {"arm", "trapezoid"} =>
            LET wl == params[p]["width_left"]
                wr == params[p]["width_right"]
            IN /\ wl = params[p]["width"]
               /\ wl < 20 => wr = 10
               /\ wl >= 20 => 2 * wr <= wl /\ wl < 2 * wr + 2

\* An arm narrower than 20 is parsed, and its tip is held at 10.
C3_NarrowArmParsed ==
    \E p \in Runs : /\ pc[p] = "parsed" /\ params[p]["part_type"] = "arm"
                     /\ params[p]["width_left"] = 12 /\ params[p]["width_right"] = 10

\* The archetype keywords of the specification.
ArchetypeKeywords ==
    {"arm", "l-bracket", "l bracket", "plate", "rectangle", "bar", "trapezoid", "bracket"}

HasKeyword(s) == \E k \in ArchetypeKeywords : Contains(s, k)

\* C4: a prompt that contains none of the archetype keywords parses to the
\* part type trapezoid.
C4_NoKeywordIsTrapezoid ==
    \A p \in Runs :
        pc[p] # "start" /\ ~HasKeyword(Lower(prompt[p])) => params[p]["part_type"] = "trapezoid"

\* C5: the setdefault block leaves the params parse_prompt returned as they
\* are, and applying it again changes nothing.
C5_ResolveChangesNothing ==
    \A p \in Runs :
        pc[p] = "resolved" =>
            /\ params[p] = ParsePrompt(variant, prompt[p])
            /\ ResolveDefaults(variant, params[p]) = params[p]

\* vectorflow.py has run its setdefault block over an arm narrower than 20.
C5_Resolved ==
    /\ variant = "vectorflow"
    /\ \E p \in Runs : pc[p] = "resolved" /\ params[p]["part_type"] = "arm"
                          /\ params[p]["width_left"] = 12

\* C6: build_scad returns only for a part type it has a branch for; for any
\* other it raises, the run is over, and the log is as it was when the run
\* began, without a row of the run.
C6_UnknownPartTypeIsFatal ==
    \A p \in Runs :
        /\ Built(p) => params[p]["part_type"] \in Recognized(variant)
        /\ pc[p] = "fatal" =>
              /\ params[p]["part_type"] \notin Recognized(variant)
              /\ csv = logBefore[p]
              /\ \A i \in 1..Len(csv.rows) : csv.rows[i].png # FileName(p, ".png")

\* A run that ended in the fatal error, over a log that held a row.
C6_FatalWithLog == \E p \in Runs : pc[p] = "fatal" /\ csv.exists /\ Len(csv.rows) = 1

\* C7: when a run ends in the fatal error, none of its files exists: no
\* preview image, no solid-model file, no mesh file.
C7_NoArtifactAfterFatal ==
    \A p \in Runs :
        pc[p] = "fatal" =>
            files \cap {FileName(p, ".png"), FileName(p, ".scad"), FileName(p, ".stl")} = {}

\* The export of run p has failed.
ExportFailed(p) ==
    pc[p] \in {"exported", "estimated", "crashed", "read", "done"} /\ ~stl_created[p]

\* C8: a run whose mesh export failed still completes: it does not end in an
\* error, and the one row it logs has an empty stl and otherwise the values
\* of the row it would log had the export succeeded.
C8_ExportFailureStillLogs ==
    \A p \in Runs :
        ExportFailed(p) =>
            /\ pc[p] # "crashed"
            /\ pc[p] = "done" =>
                  /\ Cardinality({ i \in 1..Len(csv.rows) :
                                      csv.rows[i].png = FileName(p, ".png") }) = 1
                  /\ csv.rows[Len(csv.rows)] =
                        [Row(variant, p, prompt[p], params[p], TRUE) EXCEPT !.stl = ""]

\* No append_csv call is under way.
NoAppendUnderWay == \A p \in Runs : pc[p] # "read"

\* C9: after the k-th of the calls of append_csv, none overlapping another,
\* the log holds the rows of the first k calls, in call order, each as it was
\* written; there is no log before the first call.
C9_LogIsRowsInCallOrder ==
    NoAppendUnderWay => csv = IF appended = << >> THEN NoFile ELSE File(appended)

\* Run p's row is in the log.
InLog(p) == \E i \in 1..Len(csv.rows) : csv.rows[i].png = FileName(p, ".png")

\* The log run p read in append_csv.
LogRead(p) == SubSeq(df[p], 1, Len(df[p]) - 1)

\* C10: append_csv loses updates under concurrent writers: whenever two runs
\* have both completed after reading the same log, the log lacks the row of
\* one of them.
C10_SameReadLosesARow ==
    \A p, q \in Runs :
        p # q /\ pc[p] = "done" /\ pc[q] = "done" /\ LogRead(p) = LogRead(q)
            => ~(InLog(p) /\ InLog(q))

\* Two runs have completed and the log lacks the row of the first.
C10_LostUpdate ==
    \E p, q \in Runs :
        /\ p # q /\ pc[p] = "done" /\ pc[q] = "done"
        /\ LogRead(p) = LogRead(q)
        /\ ~InLog(p) /\ InLog(q)

\* C11: parse_prompt returns, for every prompt, params with part_type,
\* length, thickness, hole_count, hole_diameter, material and target_force_n,
\* and with the fields the preview and the solid read for the part type:
\* width_left and width_right for an arm or a trapezoid, rect_width for a
\* rectangle, circle_diameter for a circle.
C11_ParseFillsEveryField ==
    \A p \in Runs :
        pc[p] = "parsed" =>
            LET d == params[p]
                t == d["part_type"]
            IN /\ {"part_type", "length", "thickness", "hole_count", "hole_diameter",
                    "material", "target_force_n"} \subseteq DOMAIN d
               /\ t \in {"arm", "trapezoid", "rectangle", "circle", "l_bracket"}
               /\ d["material"] \in {"aluminum", "steel"}
               /\ {d["length"], d["thickness"], d["hole_count"], d["hole_diameter"],
                    d["target_force_n"]} \subseteq Nat
               /\ t \in {"arm", "trapezoid"} =>
                      {"width_left", "width_right"} \subseteq DOMAIN d
                      /\ {d["width_left"], d["width_right"]} \subseteq Nat
               /\ t = "rectangle" => "rect_width" \in DOMAIN d /\ d["rect_width"] \in Nat
               /\ t = "circle" =>
                      "circle_diameter" \in DOMAIN d /\ d["circle_diameter"] \in Nat

\* vectorflow.py has parsed the second example, a plate, with its diameter.
C11_PlateParsed ==
    \E p \in Runs :
        /\ variant = "vectorflow" /\ pc[p] = "parsed" /\ prompt[p] = Example2
        /\ params[p]["part_type"] = "circle" /\ "circle_diameter" \in DOMAIN params[p]

\* The keyword k stands in s at position i as a word of its own: no word
\* character before it and none after it.
WholeWordAt(s, k, i) ==
    /\ i + Len(k) - 1 <= Len(s)
    /\ SubSeq(s, i, i + Len(k) - 1) = k
    /\ ~IsWordAt(s, i - 1)
    /\ ~IsWordAt(s, i + Len(k))

HasWholeWord(s, k) == \E i \in 1..Len(s) : WholeWordAt(s, k, i)

\* The keywords of whole-word detection.
WordKeywords == {"arm", "plate", "bar", "rectangle", "bracket", "trapezoid"}

\* C12: a prompt in which archetype keywords occur, but none as a whole word
\* (each only inside a longer word), parses to the default part type
\* trapezoid.
C12_SubstringsAreNotKeywords ==
    \A p \in Runs :
        LET s == Lower(prompt[p])
        IN (/\ pc[p] = "parsed"
            /\ \E k \in WordKeywords : Contains(s, k)
            /\ \A k \in WordKeywords : ~HasWholeWord(s, k))
           => params[p]["part_type"] = "trapezoid"

\* C13: the estimate of run_from_prompt never raises: every run that reaches
\* it, for any part type and material parse_prompt returns, goes on with its
\* net area, volume, weight, capacity and status computed.
C13_EstimateNeverRaises ==
    \A p \in Runs :
        /\ pc[p] # "crashed"
        /\ pc[p] = "exported" => ~EstimateRaises(variant, params[p])

\* What the first example prompt parses to, but for the part type.
Example1Fields(d) ==
    /\ d["length"] = 150
    /\ d["width_left"] = 50
    /\ d["width_right"] = 25
    /\ d["hole_count"] = 3
    /\ d["material"] = "aluminum"
    /\ d["target_force_n"] = 2000

\* C14, as stated: the first example prompt parses to part_type trapezoid,
\* length 150, width_left 50, width_right 25, hole_count 3, material
\* aluminum, target_force_n 2000.
C14_Example1IsTrapezoid ==
    \A p \in Runs :
        pc[p] = "parsed" /\ prompt[p] = Example1 =>
            params[p]["part_type"] = "trapezoid" /\ Example1Fields(params[p])

\* C14, amended: the first example prompt parses to part_type arm (the part
\* type that is drawn, built and estimated as a trapezoid), length 150,
\* width_left 50, width_right 25, hole_count 3, material aluminum,
\* target_force_n 2000.
C14_Example1IsArm ==
    \A p \in Runs :
        pc[p] = "parsed" /\ prompt[p] = Example1 =>
            params[p]["part_type"] = "arm" /\ Example1Fields(params[p])

\* The first example prompt has been parsed by vectorflow.py.
C14_Example1Parsed ==
    \E p \in Runs :
        /\ variant = "vectorflow" /\ pc[p] = "parsed" /\ prompt[p] = Example1
        /\ "width_right" \in DOMAIN params[p]

\* C15: the second example prompt parses to part_type circle,
\* circle_diameter 80, hole_count 4, hole_diameter 6, thickness 6, material
\* steel.
C15_Example2IsPlate ==
    \A p \in Runs :
        pc[p] = "parsed" /\ prompt[p] = Example2 =>
            LET d == params[p]
            IN /\ d["part_type"] = "circle"
               /\ d["circle_diameter"] = 80
               /\ d["hole_count"] = 4
               /\ d["hole_diameter"] = 6
               /\ d["thickness"] = 6
               /\ d["material"] = "steel"

\* C16: the fatal error cannot be reached from a prompt: the part type
\* parse_prompt returns is one build_scad accepts, and no run ends in
\* "Unknown part type".
C16_FatalUnreachableFromPrompts ==
    \A p \in Runs :
        /\ pc[p] # "fatal"
        /\ pc[p] # "start" => ~BuildScadRaises(variant, params[p])

\* The archetypes in their order of priority, each with its keywords and the
\* part type it stands for.
Archetypes ==
    << [words |-> {"arm"}, part_type |-> "arm"],
       [words |-> {"l-bracket", "l bracket"}, part_type |-> "l_bracket"],
       [words |-> {"plate"}, part_type |-> "circle"],
       [words |-> {"rectangle", "bar"}, part_type |-> "rectangle"],
       [words |-> {"trapezoid", "bracket"}, part_type |-> "trapezoid"] >>

\* The archetypes of which s holds a keyword as a whole word.
ArchetypesIn(s) ==
    { a \in DOMAIN Archetypes : \E k \in Archetypes[a].words : HasWholeWord(s, k) }

\* C17: when a prompt holds whole-word keywords of two or more archetypes,
\* the part type is that of the archetype first in the order arm, l-bracket,
\* plate, rectangle/bar, trapezoid/bracket, wherever the keywords stand.
C17_HighestPriorityKeywordWins ==
    \A p \in Runs :
        LET present == ArchetypesIn(Lower(prompt[p]))
        IN pc[p] = "parsed" /\ Cardinality(present) >= 2 =>
              LET first == CHOOSE a \in present : \A b \in present : a <= b
              IN params[p]["part_type"] = Archetypes[first].part_type

\* C18: the params parse_prompt returns have length, thickness,
\* hole_diameter and target_force_n above zero and hole_count at least zero,
\* also when the prompt states a zero.
C18_DimensionsArePositive ==
    \A p \in Runs :
        pc[p] = "parsed" =>
            LET d == params[p]
            IN /\ d["length"] > 0
               /\ d["thickness"] > 0
               /\ d["hole_diameter"] > 0
               /\ d["target_force_n"] > 0
               /\ d["hole_count"] >= 0

\* The characters of s from a to b are all of the set.
AllIn(s, a, b, set) == \A j \in a..b : SubSeq(s, j, j) \in set

\* The maximal runs of digits of s, as spans <<a, b>>.
DigitRuns(s) ==
    { y \in (1..Len(s)) \X (1..Len(s)) :
        /\ y[1] <= y[2]
        /\ AllIn(s, y[1], y[2], Digit)
        /\ ~IsWordAt(s, y[1] - 1) \/ SubSeq(s, y[1] - 1, y[1] - 1) \notin Digit
        /\ y[2] = Len(s) \/ SubSeq(s, y[2] + 1, y[2] + 1) \notin Digit }

\* The numbers of the prompt that the unit N follows at once.
NumbersBeforeN(s) ==
    { ToInt(SubSeq(s, y[1], y[2])) :
        y \in { z \in DigitRuns(s) :
                  z[2] < Len(s) /\ SubSeq(s, z[2] + 1, z[2] + 1) = "N" } }

\* C19, as stated: when the prompt holds a number followed at once by the
\* unit N, target_force_n is that number, with or without "supports" or
\* "up to" before it.
C19_NumberBeforeNIsTarget ==
    \A p \in Runs :
        pc[p] = "parsed" /\ NumbersBeforeN(prompt[p]) # {} =>
            params[p]["target_force_n"] \in NumbersBeforeN(prompt[p])

\* The digit runs of s that "supports" at position i leads to: after the
\* word come blanks, then possibly "up to" and blanks, then the digits; after
\* the digits come blanks and the letter n.
ForceSpans(s, i) ==
    IF i + 7 > Len(s) \/ SubSeq(s, i, i + 7) # "supports" THEN {}
    ELSE { y \in DigitRuns(s) :
             /\ y[1] >= i + 8
             /\ \/ AllIn(s, i + 8, y[1] - 1, Space)
                \/ \E u \in (i + 8)..(y[1] - 5) :
                      /\ AllIn(s, i + 8, u - 1, Space)
                      /\ SubSeq(s, u, u + 4) = "up to"
                      /\ AllIn(s, u + 5, y[1] - 1, Space)
             /\ \E c \in (y[2] + 1)..Len(s) :
                      AllIn(s, y[2] + 1, c - 1, Space) /\ SubSeq(s, c, c) = "n" }

\* C19, amended: in the prompt in lower case, target_force_n is the number
\* that follows the first "supports" which is followed, after optional
\* blanks and an optional "up to", by a number and then, after optional
\* blanks, by the letter n; it is 2000 when no "supports" is followed so.
C19_TargetFollowsSupports ==
    \A p \in Runs :
        pc[p] = "parsed" =>
            LET s == Lower(prompt[p])
                starts == { i \in 1..Len(s) : ForceSpans(s, i) # {} }
            IN IF starts = {} THEN params[p]["target_force_n"] = 2000
               ELSE LET i == CHOOSE a \in starts : \A b \in starts : a <= b
                        y == CHOOSE z \in ForceSpans(s, i) : TRUE
                    IN /\ Cardinality(ForceSpans(s, i)) = 1
                       /\ params[p]["target_force_n"] = ToInt(SubSeq(s, y[1], y[2]))

\* A prompt with a bare number before N, and after it "supports up to" with
\* another, which is the one taken.
C19_BareNumberPassedOver ==
    \E p \in Runs :
        /\ pc[p] = "parsed" /\ prompt[p] = "500N supports up to 70 n"
        /\ params[p]["target_force_n"] = 70
====
